---- MODULE Spec2Model ----
(***************************************************************************)
(* Model of finance_rag_implementation.ipynb: the retrieval-augmented      *)
(* question answering pipeline run_rag_with_news and the pure helpers it   *)
(* is built from (get_ticker_from_question, chunk_text, build_rag_corpus). *)
(* Python strings are modelled as sequences of one-character strings.      *)
(***************************************************************************)
EXTENDS Integers, Sequences, FiniteSets, TLC

VARIABLES
    \* run_rag_with_news: argument, control position and locals
    question, pc, ticker, company_name,
    summary, news_articles, corpus,
    seed, embeddings, q_embed, I, context, prompt,
    result, exc,
    \* number of invocations of each collaborator during the request
    resolveCalls, summaryCalls, newsCalls, embedCalls, searchCalls, genCalls,
    \* a direct call chunk_text(ck_text, ck_size)
    ck_text, ck_size, ck_out, ck_pc,
    \* a direct call of build_rag_corpus with the two fetchers stubbed
    cb_summary, cb_news, cb_out, cb_pc

ragVars == <<question, pc, ticker, company_name, summary,
             news_articles, corpus, seed, embeddings, q_embed, I, context,
             prompt, result, exc, resolveCalls, summaryCalls, newsCalls,
             embedCalls, searchCalls, genCalls>>
ckVars == <<ck_text, ck_size, ck_out, ck_pc>>
cbVars == <<cb_summary, cb_news, cb_out, cb_pc>>
vars == <<ragVars, ckVars, cbVars>>

----------------------------------------------------------------------------
(* Bounds of the model *)

\* number of stand-in embedders the model load may yield
MaxSeed == 2
\* largest number of entries in the news feed
MaxNews == 2
\* largest length of the text of a direct chunk_text call
MaxTextLen == 4
\* largest chunk_size of a direct chunk_text call
MaxChunkSize == 4
\* chunk_size of a direct call ranges down to -MaxNeg
MaxNeg == 2

(* Program constants *)

\* default chunk_size of chunk_text
DefaultChunkSize == 300
\* number of neighbours asked of index.search
K == 3

----------------------------------------------------------------------------
(* Python primitives *)

None == "None"

Min(a, b) == IF a < b THEN a ELSE b

UpperLetters == <<"A", "B", "C", "D", "E", "F", "G", "H", "I", "J", "K", "L", "M", "N", "O", "P", "Q", "R", "S", "T", "U", "V", "W", "X", "Y", "Z">>
LowerLetters == <<"a", "b", "c", "d", "e", "f", "g", "h", "i", "j", "k", "l", "m", "n", "o", "p", "q", "r", "s", "t", "u", "v", "w", "x", "y", "z">>

\* str.lower() on one character
LowerChar(c) ==
    IF \E i \in 1..26 : UpperLetters[i] = c
    THEN LowerLetters[CHOOSE i \in 1..26 : UpperLetters[i] = c]
    ELSE c

\* str.lower()
lower(s) == [i \in 1..Len(s) |-> LowerChar(s[i])]

\* re.search(rf"{name}", s) for a name of plain letters: substring test
re_search(name, s) ==
    \E i \in 1..(Len(s) - Len(name) + 1) : SubSeq(s, i, i + Len(name) - 1) = name

\* range(start, stop, step) for step # 0, as the sequence of its values
range(start, stop, step) ==
    LET n == IF step > 0
             THEN (IF stop > start THEN (stop - start + step - 1) \div step ELSE 0)
             ELSE (IF start > stop THEN (start - stop - step - 1) \div (-step) ELSE 0)
    IN [k \in 1..n |-> start + (k - 1) * step]

\* text[i:j] for 0 <= i, 0 <= j (0-based, end exclusive, clamped to len)
slice(text, i, j) == SubSeq(text, Min(i, Len(text)) + 1, Min(j, Len(text)))

\* lst[i] with Python's negative indexing (0-based; -1 is the last element)
getitem(lst, i) == IF i >= 0 THEN lst[i + 1] ELSE lst[Len(lst) + i + 1]

RECURSIVE flatten(_)
\* [item for sublist in lists for item in sublist]
flatten(lists) ==
    IF lists = <<>> THEN <<>> ELSE Head(lists) \o flatten(Tail(lists))

RECURSIVE join(_, _)
\* sep.join(parts)
join(sep, parts) ==
    IF parts = <<>> THEN <<>>
    ELSE IF Len(parts) = 1 THEN parts[1]
    ELSE parts[1] \o sep \o join(sep, Tail(parts))

\* a text of the given length whose characters cycle through the alphabet
Text(len, off) == [i \in 1..len |-> LowerLetters[((i + off) % 26) + 1]]

----------------------------------------------------------------------------
(* company_ticker_map, in declaration order *)

company_ticker_map ==
    << [name |-> <<"m", "i", "c", "r", "o", "s", "o", "f", "t">>, ticker |-> "MSFT"],
       [name |-> <<"a", "p", "p", "l", "e">>,     ticker |-> "AAPL"],
       [name |-> <<"g", "o", "o", "g", "l", "e">>,    ticker |-> "GOOGL"],
       [name |-> <<"a", "m", "a", "z", "o", "n">>,    ticker |-> "AMZN"],
       [name |-> <<"m", "e", "t", "a">>,      ticker |-> "META"],
       [name |-> <<"t", "e", "s", "l", "a">>,     ticker |-> "TSLA"],
       [name |-> <<"b", "n", "y">>,       ticker |-> "BK"] >>

RECURSIVE first_match(_, _)
\* the for loop of get_ticker_from_question from the i-th name on
first_match(question_lower, i) ==
    IF i > Len(company_ticker_map) THEN <<None, <<>>>>
    ELSE IF re_search(company_ticker_map[i].name, question_lower)
         THEN <<company_ticker_map[i].ticker, company_ticker_map[i].name>>
         ELSE first_match(question_lower, i + 1)

\* the lookup without question.lower()
get_ticker_no_lower(q) == first_match(q, 1)

get_ticker_from_question(q) == first_match(lower(q), 1)

----------------------------------------------------------------------------
(* chunk_text and build_rag_corpus *)

\* chunk_text with every slice one character short: text[i:i+chunk_size-1]
chunk_text_short(text, chunk_size) ==
    IF chunk_size = 0
    THEN [raised |-> "ValueError", value |-> <<>>]
    ELSE LET r == range(0, Len(text), chunk_size)
         IN [raised |-> None,
             value |-> [k \in 1..Len(r) |-> slice(text, r[k], r[k] + chunk_size - 1)]]

\* chunk_text(text, chunk_size): the list of slices, or the ValueError that
\* range() raises for a zero step
chunk_text(text, chunk_size) ==
    IF chunk_size = 0
    THEN [raised |-> "ValueError", value |-> <<>>]
    ELSE LET r == range(0, Len(text), chunk_size)
         IN [raised |-> None,
             value |-> [k \in 1..Len(r) |-> slice(text, r[k], r[k] + chunk_size)]]

\* chunk_text(text) with the default chunk_size
chunk_default(text) == chunk_text(text, DefaultChunkSize).value

\* build_rag_corpus returning news_chunks + summary_chunks
build_rag_corpus_news_first(summary_text, articles) ==
    LET s_chunks == chunk_default(summary_text)
        n_chunks == [a \in 1..Len(articles) |-> chunk_default(articles[a])]
    IN flatten(n_chunks) \o s_chunks

\* build_rag_corpus once both fetchers have returned
build_rag_corpus(summary_text, articles) ==
    LET s_chunks == chunk_default(summary_text)
        n_chunks == [a \in 1..Len(articles) |-> chunk_default(articles[a])]
    IN s_chunks \o flatten(n_chunks)

----------------------------------------------------------------------------
(* Collaborators *)

\* texts stock.info.get('longBusinessSummary', 'No summary available.') may yield
SummaryTexts ==
    { <<>>, <<"N", "o", " ", "s", "u", "m", "m", "a", "r", "y", " ", "a", "v", "a", "i", "l", "a", "b", "l", "e", ".">>, Text(301, 0), Text(900, 3) }

\* entries the parsed feed may hold
NewsEntries ==
    { [title |-> <<>>,         summary |-> <<>>],
      [title |-> Text(20, 1),  summary |-> Text(28, 5)],
      [title |-> Text(10, 2),  summary |-> Text(295, 7)] }

Feeds == UNION { [1..n -> NewsEntries] : n \in 0..MaxNews }

\* get_yahoo_finance_news once the feed is parsed
get_yahoo_finance_news(feed) ==
    [e \in 1..Len(feed) |-> feed[e].title \o <<".", " ">> \o feed[e].summary]

\* questions put to run_rag_with_news
Questions ==
    { <<>>, <<"h", "i">>, <<"A", "P", "P", "L">>, <<"B", "N", "Y", " ", "a", "i">>, <<"T", "e", "s", "l", "a", " ", "o", "r", " ", "A", "p", "p", "l", "e">>, <<"m", "e", "t", "a", "l">> }

\* the early return value of run_rag_with_news
SorryMsg == <<"S", "o", "r", "r", "y", ",", " ", "I", " ", "c", "o", "u", "l", "d", "n", "'", "t", " ", "i", "d", "e", "n", "t", "i", "f", "y", " ", "a", " ", "c", "o", "m", "p", "a", "n", "y", " ", "i", "n", " ", "y", "o", "u", "r", " ", "q", "u", "e", "s", "t", "i", "o", "n", ".">>

\* response['choices'][0]['message']['content'] of a successful completion
Answer == <<"a", "n", "s", "w", "e", "r">>

\* position of a character in the alphabet, 0 for any other character
Code(c) ==
    IF \E i \in 1..26 : LowerLetters[i] = c
    THEN CHOOSE i \in 1..26 : LowerLetters[i] = c
    ELSE 0

\* model.encode of one text by stand-in embedder s: a deterministic vector
encode_one(s, t) ==
    IF t = <<>> THEN <<0, 0>>
    ELSE <<(Len(t) * s) % 5, (Code(t[1]) + s) % 4>>

\* model.encode(texts): one vector per text, same order
encode(s, texts) == [i \in 1..Len(texts) |-> encode_one(s, texts[i])]

\* squared Euclidean distance of IndexFlatL2
L2(a, b) == (a[1] - b[1]) * (a[1] - b[1]) + (a[2] - b[2]) * (a[2] - b[2])

\* index.search(q, k) on the index holding embs: the label rows I[0] it may
\* return. The min(k, m) nearest positions (0-based) in ascending distance,
\* ties in any order, and -1 in every slot left over when m < k.
index_search(embs, q, k) ==
    LET m == Len(embs)
        r == Min(k, m)
        dist(p) == L2(embs[p + 1], q)
        hits == { h \in [1..r -> 0..(m - 1)] :
                    /\ \A i, j \in 1..r : i # j => h[i] # h[j]
                    /\ \A i \in 1..(r - 1) : dist(h[i]) <= dist(h[i + 1])
                    /\ \A p \in 0..(m - 1) :
                          (\A i \in 1..r : h[i] # p) => dist(p) >= dist(h[r]) }
    IN { [i \in 1..k |-> IF i <= r THEN h[i] ELSE -1] : h \in hits }

----------------------------------------------------------------------------
(* run_rag_with_news, one action per step *)

RagInit ==
    /\ question \in Questions
    /\ pc = "ResolvingSubject"
    /\ ticker = None /\ company_name = <<>>
    /\ summary = <<>> /\ news_articles = <<>> /\ corpus = <<>>
    /\ seed = 0 /\ embeddings = <<>> /\ q_embed = <<>> /\ I = <<>>
    /\ context = <<>> /\ prompt = <<>>
    /\ result = <<>> /\ exc = None
    /\ resolveCalls = 0 /\ summaryCalls = 0 /\ newsCalls = 0
    /\ embedCalls = 0 /\ searchCalls = 0 /\ genCalls = 0

RagIdle ==
    /\ question = <<>>
    /\ pc = "Idle"
    /\ ticker = None /\ company_name = <<>>
    /\ summary = <<>> /\ news_articles = <<>> /\ corpus = <<>>
    /\ seed = 0 /\ embeddings = <<>> /\ q_embed = <<>> /\ I = <<>>
    /\ context = <<>> /\ prompt = <<>>
    /\ result = <<>> /\ exc = None
    /\ resolveCalls = 0 /\ summaryCalls = 0 /\ newsCalls = 0
    /\ embedCalls = 0 /\ searchCalls = 0 /\ genCalls = 0

\* run_rag_with_news without the early return
ResolveSubject_no_return ==
    /\ pc = "ResolvingSubject"
    /\ LET r == get_ticker_from_question(question)
       IN /\ ticker' = r[1]
          /\ company_name' = r[2]
    /\ pc' = "FetchingSummary"
    /\ resolveCalls' = resolveCalls + 1
    /\ UNCHANGED <<question, summary, news_articles, corpus, seed, embeddings,
                   q_embed, I, context, prompt, result, exc, summaryCalls,
                   newsCalls, embedCalls, searchCalls, genCalls, ckVars, cbVars>>

\* ticker, company_name = get_ticker_from_question(question); if not ticker: return
ResolveSubject ==
    /\ pc = "ResolvingSubject"
    /\ LET r == get_ticker_from_question(question)
       IN /\ ticker' = r[1]
          /\ company_name' = r[2]
          /\ IF r[1] = None
             THEN pc' = "Failed" /\ result' = SorryMsg
             ELSE pc' = "FetchingSummary" /\ result' = result
    /\ resolveCalls' = resolveCalls + 1
    /\ UNCHANGED <<question, summary, news_articles, corpus, seed, embeddings,
                   q_embed, I, context, prompt, exc, summaryCalls, newsCalls,
                   embedCalls, searchCalls, genCalls, ckVars, cbVars>>

\* build_rag_corpus: summary = get_company_summary(ticker), which returns a
\* text or raises; nothing in run_rag_with_news catches what it raises
FetchSummary ==
    /\ pc = "FetchingSummary"
    /\ summaryCalls' = summaryCalls + 1
    /\ \/ \E s \in SummaryTexts :
            /\ summary' = s
            /\ pc' = "FetchingNews"
            /\ exc' = exc
       \/ /\ pc' = "Raised"
          /\ exc' = "SummaryFetchError"
          /\ summary' = summary
    /\ UNCHANGED <<question, ticker, company_name, news_articles, corpus, seed,
                   embeddings, q_embed, I, context, prompt, result,
                   resolveCalls, newsCalls, embedCalls, searchCalls, genCalls,
                   ckVars, cbVars>>

\* build_rag_corpus: news_articles = get_yahoo_finance_news(ticker), which
\* returns the items or raises; then the chunking and the return into corpus
FetchNews ==
    /\ pc = "FetchingNews"
    /\ newsCalls' = newsCalls + 1
    /\ \/ \E feed \in Feeds :
            /\ news_articles' = get_yahoo_finance_news(feed)
            /\ corpus' = build_rag_corpus(summary, news_articles')
            /\ pc' = "Embedding"
            /\ exc' = exc
       \/ /\ pc' = "Raised"
          /\ exc' = "NewsFetchError"
          /\ UNCHANGED <<news_articles, corpus>>
    /\ UNCHANGED <<question, ticker, company_name, summary, seed, embeddings,
                   q_embed, I, context, prompt, result, resolveCalls,
                   summaryCalls, embedCalls, searchCalls, genCalls,
                   ckVars, cbVars>>

\* model = SentenceTransformer(..); embeddings = model.encode(corpus);
\* index = IndexFlatL2(embeddings[0].shape[0]); index.add(embeddings).
\* embeddings[0] raises IndexError when nothing was encoded.
EmbedCorpus ==
    /\ pc = "Embedding"
    /\ embedCalls' = embedCalls + 1
    /\ \E s \in 1..MaxSeed :
          /\ seed' = s
          /\ embeddings' = encode(s, corpus)
    /\ IF embeddings' = <<>>
       THEN pc' = "Raised" /\ exc' = "IndexError"
       ELSE pc' = "Retrieving" /\ exc' = exc
    /\ UNCHANGED <<question, ticker, company_name, summary, news_articles,
                   corpus, q_embed, I, context, prompt, result, resolveCalls,
                   summaryCalls, newsCalls, searchCalls, genCalls,
                   ckVars, cbVars>>

\* [corpus[i] for i in I[0]]
retrieved(corp, labels) == [i \in 1..Len(labels) |-> getitem(corp, labels[i])]

\* context = retrieve_context(question)
RetrieveContext ==
    /\ pc = "Retrieving"
    /\ embedCalls' = embedCalls + 1
    /\ searchCalls' = searchCalls + 1
    /\ q_embed' = encode(seed, <<question>>)
    /\ \E labels \in index_search(embeddings, q_embed'[1], K) :
          /\ I' = labels
          /\ context' = join(<<"\n">>, retrieved(corpus, labels))
    /\ pc' = "Generating"
    /\ UNCHANGED <<question, ticker, company_name, summary, news_articles,
                   corpus, seed, embeddings, prompt, result, exc, resolveCalls,
                   summaryCalls, newsCalls, genCalls, ckVars, cbVars>>

\* prompt = f"Context:\n{context}\n\nQuestion: {question}"
make_prompt(ctx, q) == <<"C", "o", "n", "t", "e", "x", "t", ":", "\n">> \o ctx \o <<"\n", "\n", "Q", "u", "e", "s", "t", "i", "o", "n", ":", " ">> \o q

\* Generate with one retry of a failed ChatCompletion call
Generate_retry ==
    /\ pc = "Generating"
    /\ prompt' = make_prompt(context, question)
    /\ genCalls' = genCalls + 1
    /\ \/ /\ result' = Answer
          /\ pc' = "Done"
          /\ exc' = exc
       \/ /\ genCalls >= 1
          /\ pc' = "Raised"
          /\ exc' = "GenerationError"
          /\ result' = result
       \/ /\ genCalls = 0
          /\ pc' = "Generating"
          /\ exc' = exc
          /\ result' = result
    /\ UNCHANGED <<question, ticker, company_name, summary, news_articles,
                   corpus, seed, embeddings, q_embed, I, context, resolveCalls,
                   summaryCalls, newsCalls, embedCalls, searchCalls,
                   ckVars, cbVars>>

\* the prompt, the ChatCompletion call (which returns or raises) and the return
Generate ==
    /\ pc = "Generating"
    /\ prompt' = make_prompt(context, question)
    /\ genCalls' = genCalls + 1
    /\ \/ /\ result' = Answer
          /\ pc' = "Done"
          /\ exc' = exc
       \/ /\ pc' = "Raised"
          /\ exc' = "GenerationError"
          /\ result' = result
    /\ UNCHANGED <<question, ticker, company_name, summary, news_articles,
                   corpus, seed, embeddings, q_embed, I, context, resolveCalls,
                   summaryCalls, newsCalls, embedCalls, searchCalls,
                   ckVars, cbVars>>

----------------------------------------------------------------------------
(* A direct call of chunk_text *)

CkTexts == UNION { [1..n -> {"a", "b"}] : n \in 0..MaxTextLen }

CkIdle ==
    /\ ck_text = <<>> /\ ck_size = 1
    /\ ck_out = [raised |-> None, value |-> <<>>]
    /\ ck_pc = "idle"

CkInit ==
    /\ ck_text \in CkTexts
    /\ ck_size \in (-MaxNeg)..MaxChunkSize
    /\ ck_out = [raised |-> None, value |-> <<>>]
    /\ ck_pc = "call"

ChunkCall ==
    /\ ck_pc = "call"
    /\ ck_out' = chunk_text(ck_text, ck_size)
    /\ ck_pc' = "done"
    /\ UNCHANGED <<ck_text, ck_size, ragVars, cbVars>>

(* A direct call of build_rag_corpus, the fetchers returning cb_summary and cb_news *)

CbSummaries == { <<>>, <<"a", "b">>, Text(300, 0), Text(301, 4), Text(601, 9) }
CbItems == { <<>>, Text(50, 2), Text(301, 6) }
CbNews == UNION { [1..n -> CbItems] : n \in 0..MaxNews }

CbIdle ==
    /\ cb_summary = <<>> /\ cb_news = <<>> /\ cb_out = <<>>
    /\ cb_pc = "idle"

CbInit ==
    /\ cb_summary \in CbSummaries
    /\ cb_news \in CbNews
    /\ cb_out = <<>>
    /\ cb_pc = "call"

CorpusCall ==
    /\ cb_pc = "call"
    /\ cb_out' = build_rag_corpus(cb_summary, cb_news)
    /\ cb_pc' = "done"
    /\ UNCHANGED <<cb_summary, cb_news, ragVars, ckVars>>

----------------------------------------------------------------------------
(* Specifications *)

Init == RagInit /\ CkIdle /\ CbIdle

Next ==
    \/ ResolveSubject
    \/ FetchSummary
    \/ FetchNews
    \/ EmbedCorpus
    \/ RetrieveContext
    \/ Generate

Spec == Init /\ [][Next]_vars

\* the interpreter runs the body of run_rag_with_news to its end
FairSpec == Spec /\ WF_vars(Next)

ChunkInit == RagIdle /\ CkInit /\ CbIdle
ChunkNext == ChunkCall
ChunkSpec == ChunkInit /\ [][ChunkNext]_vars

CorpusInit == RagIdle /\ CkIdle /\ CbInit
CorpusNext == CorpusCall
CorpusSpec == CorpusInit /\ [][CorpusNext]_vars

TypeOK ==
    /\ pc \in {"Idle", "ResolvingSubject", "FetchingSummary", "FetchingNews",
               "Embedding", "Retrieving", "Generating", "Done", "Failed", "Raised"}
    /\ exc \in {None, "SummaryFetchError", "NewsFetchError", "IndexError",
                "GenerationError"}

----------------------------------------------------------------------------
(* What the caller of run_rag_with_news observes *)

Terminal == {"Done", "Failed", "Raised"}

\* the failure the caller can attribute: the apology string is the only
\* failure run_rag_with_news reports itself; a propagated exception carries
\* no attribution
FailureKind ==
    IF pc = "Failed" /\ result = SorryMsg THEN "NoSubjectIdentified"
    ELSE IF pc = "Raised" THEN "Unattributed"
    ELSE None

\* the stage of the orchestrator a control position belongs to
Stage(p) ==
    CASE p = "ResolvingSubject" -> "ResolvingSubject"
      [] p \in {"FetchingSummary", "FetchingNews"} -> "BuildingCorpus"
      [] p \in {"Embedding", "Retrieving"} -> "Retrieving"
      [] p = "Generating" -> "Generating"
      [] p = "Done" -> "Done"
      [] p \in {"Failed", "Raised"} -> "Failed"
      [] OTHER -> "Idle"

\* no name of company_ticker_map occurs in the question, letter case ignored
NoNameOccurs(q) ==
    \A i \in 1..Len(company_ticker_map) :
        ~ re_search(company_ticker_map[i].name, lower(q))

----------------------------------------------------------------------------
(* Properties *)

\* C1: a question in which no name of company_ticker_map occurs ends in the
\* "couldn't identify a company" outcome, and on that run the summary
\* fetcher, the news fetcher, the embedder, the index search and the
\* generation collaborator are never invoked.
C1_NoSubjectNoCalls ==
    (pc # "Idle" /\ NoNameOccurs(question)) =>
        /\ summaryCalls = 0 /\ newsCalls = 0 /\ embedCalls = 0
        /\ searchCalls = 0 /\ genCalls = 0
        /\ pc \in {"ResolvingSubject", "Failed"}
        /\ pc = "Failed" => (FailureKind = "NoSubjectIdentified" /\ exc = None)

C1_Witness ==
    /\ pc = "Failed" /\ question = <<"A", "P", "P", "L">>
    /\ NoNameOccurs(question) /\ result = SorryMsg

\* C2: for a corpus of m >= 1 fragments the retrieval step yields exactly
\* min(3, m) fragments, each corpus[p] for a distinct stored position p the
\* search returned, in ascending order of distance to the query.
C2_RetrievalSize ==
    searchCalls = 1 =>
        LET m == Len(corpus)
            got == retrieved(corpus, I)
            dist(p) == L2(embeddings[p + 1], q_embed[1])
        IN /\ Len(got) = Min(K, m)
           /\ \A i \in 1..Len(I) : I[i] \in 0..(m - 1)
           /\ \A i, j \in 1..Len(I) : i # j => I[i] # I[j]
           /\ \A i \in 1..(Len(I) - 1) : dist(I[i]) <= dist(I[i + 1])

\* C3: when the corpus built for a resolved subject has zero fragments the
\* request ends in the typed failure NoContextAvailable: generation is not
\* invoked and no other kind of error is raised.
C3_EmptyCorpusTyped ==
    (embedCalls >= 1 /\ corpus = <<>>) =>
        /\ genCalls = 0
        /\ pc = "Failed"
        /\ exc = None

\* C4: chunk_text fails with an invalid-argument error for every
\* chunk_size <= 0 and every text; it never returns a list for such a size.
C4_NonPositiveSizeRejected ==
    (ck_pc = "done" /\ ck_size <= 0) => ck_out.raised # None

\* C5: a failure of the summary or news fetcher ends the request in
\* Failed(SourceUnavailable), a failure of the generation collaborator in
\* Failed(GenerationError); the caller never receives an unattributed failure.
C5_CollaboratorFailureTyped ==
    /\ exc \in {"SummaryFetchError", "NewsFetchError"} =>
           FailureKind = "SourceUnavailable"
    /\ exc = "GenerationError" => FailureKind = "GenerationError"
    /\ FailureKind # "Unattributed"

RECURSIVE Concat(_)
Concat(parts) == IF parts = <<>> THEN <<>> ELSE Head(parts) \o Concat(Tail(parts))

\* C6: for a positive chunk_size n, chunk_text(s, n) is the partition of s
\* into consecutive slices: fragment j holds the characters from offset
\* j*n up to min((j+1)*n, len(s)); the concatenation is s, every fragment
\* but the last has length n, none is empty, and the empty text gives [].
C6_ChunkPartition ==
    (ck_pc = "done" /\ ck_size > 0) =>
        LET n == ck_size
            out == ck_out.value
        IN /\ ck_out.raised = None
           /\ Concat(out) = ck_text
           /\ \A j \in 1..Len(out) :
                 /\ Len(out[j]) >= 1
                 /\ Len(out[j]) = Min(j * n, Len(ck_text)) - (j - 1) * n
                 /\ j < Len(out) => Len(out[j]) = n
                 /\ \A c \in 1..Len(out[j]) : out[j][c] = ck_text[(j - 1) * n + c]
           /\ ck_text = <<>> => out = <<>>

C6_Witness ==
    /\ ck_pc = "done" /\ ck_size = 2 /\ Len(ck_text) = 3
    /\ Len(ck_out.value) = 2 /\ Len(ck_out.value[2]) = 1

\* number of fragments a document of the given length is cut into
NChunks(len) == (len + DefaultChunkSize - 1) \div DefaultChunkSize

RECURSIVE FragmentsBefore(_, _)
\* number of fragments of the documents before the d-th
FragmentsBefore(docs, d) ==
    IF d <= 1 THEN 0
    ELSE FragmentsBefore(docs, d - 1) + NChunks(Len(docs[d - 1]))

\* C7: build_rag_corpus returns all fragments of the summary first, then
\* the fragments of each news item grouped by item in the order returned,
\* fragments within a document in text order; an empty item contributes
\* nothing and the length is the sum of the per-document fragment counts.
C7_CorpusOrder ==
    cb_pc = "done" =>
        LET docs == <<cb_summary>> \o cb_news
        IN /\ Len(cb_out) = FragmentsBefore(docs, Len(docs) + 1)
           /\ \A d \in 1..Len(docs) :
                 /\ docs[d] = <<>> => NChunks(Len(docs[d])) = 0
                 /\ \A j \in 1..NChunks(Len(docs[d])) :
                       cb_out[FragmentsBefore(docs, d) + j] =
                           SubSeq(docs[d], (j - 1) * DefaultChunkSize + 1,
                                  Min(j * DefaultChunkSize, Len(docs[d])))

C7_Witness ==
    /\ cb_pc = "done"
    /\ Len(cb_summary) > DefaultChunkSize
    /\ Len(cb_news) = 2 /\ cb_news[1] = <<>> /\ Len(cb_news[2]) > DefaultChunkSize
    /\ Len(cb_out) = NChunks(Len(cb_summary)) + 2

\* C8: the prompt handed to the generation collaborator is a "Context:"
\* section holding the texts of the fragments the search retrieved, joined
\* by newlines in ascending-distance order, followed by a "Question:"
\* section holding the question unchanged, and nothing else.
C8_PromptIsRetrieved ==
    genCalls = 1 =>
        LET hits == SelectSeq(I, LAMBDA p : p >= 0)
            texts == [i \in 1..Len(hits) |-> corpus[hits[i] + 1]]
        IN prompt = <<"C", "o", "n", "t", "e", "x", "t", ":", "\n">> \o join(<<"\n">>, texts)
                      \o <<"\n", "\n", "Q", "u", "e", "s", "t", "i", "o", "n", ":", " ">> \o question

\* the stage changes the orchestrator may make
StageStep(s, t) ==
    \/ t = s
    \/ s = "ResolvingSubject" /\ t = "BuildingCorpus"
    \/ s = "BuildingCorpus" /\ t = "Retrieving"
    \/ s = "Retrieving" /\ t = "Generating"
    \/ s = "Generating" /\ t = "Done"
    \/ s \notin {"Done", "Failed"} /\ t = "Failed"

C9_CallOrder ==
    /\ resolveCalls <= 1 /\ summaryCalls <= 1 /\ newsCalls <= 1
    /\ searchCalls <= 1 /\ genCalls <= 1
    /\ (embedCalls > 0 \/ searchCalls > 0) =>
          (summaryCalls = 1 /\ newsCalls = 1
             /\ pc \notin {"FetchingSummary", "FetchingNews"})
    /\ genCalls > 0 => (searchCalls = 1 /\ pc # "Retrieving")

C9_Step ==
    /\ StageStep(Stage(pc), Stage(pc'))
    /\ pc \in Terminal =>
          UNCHANGED <<pc, resolveCalls, summaryCalls, newsCalls, embedCalls,
                      searchCalls, genCalls>>

\* C9: a request moves through the stages only in the order
\* ResolvingSubject, BuildingCorpus, Retrieving, Generating, Done, never
\* re-enters a stage, invokes each collaborator at most once, completes both
\* fetches before any embedding or search and the search before generation,
\* and always ends in Done or in a terminal failure after which no
\* collaborator is invoked.
C9_Pipeline ==
    /\ [][C9_Step]_vars
    /\ []C9_CallOrder
    /\ <>(pc \in Terminal)

C9_Witness ==
    /\ pc = "Done"
    /\ resolveCalls = 1 /\ summaryCalls = 1 /\ newsCalls = 1
    /\ searchCalls = 1 /\ genCalls = 1

\* C10: get_ticker_from_question returns (ticker, name) of the first name,
\* in declaration order of company_ticker_map, that occurs in the lowercased
\* question, also when several names occur, and (None, None) exactly when no
\* name occurs; the subject is a function of the question alone.
C10_FirstDeclaredMatch ==
    pc \notin {"Idle", "ResolvingSubject"} =>
        LET ql == [i \in 1..Len(question) |-> LowerChar(question[i])]
            matches == { i \in 1..Len(company_ticker_map) :
                           re_search(company_ticker_map[i].name, ql) }
        IN /\ (ticker = None) <=> (matches = {})
           /\ matches = {} => company_name = <<>>
           /\ matches # {} =>
                 LET f == CHOOSE i \in matches : \A j \in matches : i <= j
                 IN /\ ticker = company_ticker_map[f].ticker
                    /\ company_name = company_ticker_map[f].name

C10_Witness ==
    /\ question = <<"T", "e", "s", "l", "a", " ", "o", "r", " ", "A", "p", "p", "l", "e">>
    /\ ticker = "AAPL" /\ company_name = <<"a", "p", "p", "l", "e">>
    /\ pc = "FetchingSummary"

====
